---- MODULE Spec2Model ----
(***************************************************************************)
(* A model of scrape_uc_events.py: the extraction of event records from    *)
(* the UC Theatre listing (parse_event_blocks) and their reconciliation    *)
(* with a Google Calendar (find_existing_event, upsert_event, main).       *)
(*                                                                         *)
(* Text is modelled as a sequence of one-character strings, so that the    *)
(* string operations of the source (strip, lower, upper, title, len, the   *)
(* regular expressions, strptime) are computed rather than assumed.        *)
(* An instant is a number of seconds since 2020-01-01T00:00:00Z.           *)
(***************************************************************************)
EXTENDS Integers, Sequences, FiniteSets, TLC

----------------------------------------------------------------------------
(* Characters and the str methods the source uses.                         *)

LowerChars == <<"a","b","c","d","e","f","g","h","i","j","k","l","m",
                "n","o","p","q","r","s","t","u","v","w","x","y","z">>

UpperChars == <<"A","B","C","D","E","F","G","H","I","J","K","L","M",
                "N","O","P","Q","R","S","T","U","V","W","X","Y","Z">>

DigitChars == <<"0","1","2","3","4","5","6","7","8","9">>

Range(f) == {f[x] : x \in DOMAIN f}

IsLower(c) == c \in Range(LowerChars)
IsUpper(c) == c \in Range(UpperChars)
IsLetter(c) == IsLower(c) \/ IsUpper(c)
IsDigit(c) == c \in Range(DigitChars)
IsSpace(c) == c \in {" ", "\n", "\t"}
\* \w of the re module (ASCII part)
IsWordChar(c) == IsLetter(c) \/ IsDigit(c) \/ c = "_"

DigitValue(c) == (CHOOSE k \in DOMAIN DigitChars : DigitChars[k] = c) - 1

LowerChar(c) ==
  IF IsUpper(c) THEN LowerChars[CHOOSE k \in DOMAIN UpperChars : UpperChars[k] = c]
  ELSE c

UpperChar(c) ==
  IF IsLower(c) THEN UpperChars[CHOOSE k \in DOMAIN LowerChars : LowerChars[k] = c]
  ELSE c

\* str.lower()
Lower(s) == [k \in 1..Len(s) |-> LowerChar(s[k])]

\* str.upper()
Upper(s) == [k \in 1..Len(s) |-> UpperChar(s[k])]

\* str.title(): the first letter of every run of letters in upper case, the
\* other letters in lower case
Title(s) ==
  [k \in 1..Len(s) |->
     IF k = 1 \/ ~IsLetter(s[k - 1]) THEN UpperChar(s[k]) ELSE LowerChar(s[k])]

\* str.strip()
Strip(s) ==
  LET keep == {k \in 1..Len(s) : ~IsSpace(s[k])}
  IN  IF keep = {} THEN <<>>
      ELSE LET lo == CHOOSE k \in keep : \A j \in keep : k <= j
               hi == CHOOSE k \in keep : \A j \in keep : k >= j
           IN  SubSeq(s, lo, hi)

\* sub in s
Contains(s, sub) ==
  \E k \in 1..(Len(s) - Len(sub) + 1) : SubSeq(s, k, k + Len(sub) - 1) = sub

\* str.isprintable(): of the characters modelled, the line break and the tab
\* are not printable
IsPrintable(s) == \A k \in 1..Len(s) : s[k] \notin {"\n", "\t"}

\* len(txt.splitlines()) of a stripped text
LineCount(s) ==
  IF s = <<>> THEN 0 ELSE 1 + Cardinality({k \in 1..Len(s) : s[k] = "\n"})

\* int() of a run of digits
RECURSIVE IntOf(_)
IntOf(ds) ==
  IF ds = <<>> THEN 0
  ELSE 10 * IntOf(SubSeq(ds, 1, Len(ds) - 1)) + DigitValue(ds[Len(ds)])

\* sep.join(parts)
RECURSIVE Join(_, _)
Join(parts, sep) ==
  IF parts = <<>> THEN <<>>
  ELSE IF Len(parts) = 1 THEN parts[1]
  ELSE parts[1] \o sep \o Join(Tail(parts), sep)

\* the first (at most) n entries of a sequence: the limit= of a bs4 search
Take(seq, n) == SubSeq(seq, 1, IF Len(seq) < n THEN Len(seq) ELSE n)

\* the least member of a non-empty set of integers
Least(S) == CHOOSE k \in S : \A j \in S : k <= j

----------------------------------------------------------------------------
(* Python's None and truth values.                                         *)

\* None where a str is expected: a sequence that is no text
NoneStr == <<"None">>

\* None where an int is expected
NoneInt == 0 - 1

\* bool(x) of an optional str: None and "" are false
TruthyStr(x) == x # NoneStr /\ x # <<>>

\* bool(x) of an optional int: None and 0 are false
TruthyInt(x) == x # NoneInt /\ x # 0

----------------------------------------------------------------------------
(* The regular expressions of parse_event_blocks, each as re.search        *)
(* computes it: the leftmost match, the alternatives in their order.       *)

WordAt(s, k) == k \in 1..Len(s) /\ IsWordChar(s[k])

\* \b between the characters k - 1 and k
Boundary(s, k) == WordAt(s, k - 1) # WordAt(s, k)

MonthNames ==
  << <<"J","a","n">>, <<"F","e","b">>, <<"M","a","r">>, <<"A","p","r">>,
     <<"M","a","y">>, <<"J","u","n">>, <<"J","u","l">>, <<"A","u","g">>,
     <<"S","e","p">>, <<"O","c","t">>, <<"N","o","v">>, <<"D","e","c">> >>

\* re.search(r"\b(Jan|...|Dec)\b", big, re.IGNORECASE): group(1) or None
SearchMonth(big) ==
  LET hits == {k \in 1..(Len(big) - 2) :
                 /\ Boundary(big, k)
                 /\ \E n \in DOMAIN MonthNames :
                      Lower(SubSeq(big, k, k + 2)) = Lower(MonthNames[n])
                 /\ Boundary(big, k + 3)}
  IN  IF hits = {} THEN NoneStr
      ELSE SubSeq(big, Least(hits), Least(hits) + 2)

\* the length of the match of [0-3]?\d\b at k, 0 when there is none; the
\* two-digit form is tried first
DayMatchLen(big, k) ==
  IF /\ k + 1 <= Len(big)
     /\ big[k] \in {"0", "1", "2", "3"}
     /\ IsDigit(big[k + 1])
     /\ Boundary(big, k + 2)
  THEN 2
  ELSE IF k <= Len(big) /\ IsDigit(big[k]) /\ Boundary(big, k + 1) THEN 1
  ELSE 0

\* re.search(r"\b([0-3]?\d)\b", big): int(group(1)) or None
SearchDay(big) ==
  LET hits == {k \in 1..Len(big) : Boundary(big, k) /\ DayMatchLen(big, k) > 0}
  IN  IF hits = {} THEN NoneInt
      ELSE IntOf(SubSeq(big, Least(hits),
                        Least(hits) + DayMatchLen(big, Least(hits)) - 1))

\* re.search(r"\b(20[2-9]\d)\b", big): int(group(1)) or None
SearchYear(big) ==
  LET hits == {k \in 1..(Len(big) - 3) :
                 /\ Boundary(big, k)
                 /\ big[k] = "2"
                 /\ big[k + 1] = "0"
                 /\ big[k + 2] \in {"2", "3", "4", "5", "6", "7", "8", "9"}
                 /\ IsDigit(big[k + 3])
                 /\ Boundary(big, k + 4)}
  IN  IF hits = {} THEN NoneInt
      ELSE IntOf(SubSeq(big, Least(hits), Least(hits) + 3))

\* the position after the run of white space that starts at k
RECURSIVE SkipSpace(_, _)
SkipSpace(s, k) ==
  IF k <= Len(s) /\ IsSpace(s[k]) THEN SkipSpace(s, k + 1) ELSE k

\* the last position of a match of [0-1]?\d(?::[0-5]\d)?\s*(?:am|pm) that
\* starts at k with an hour of hlen digits, with or without the minutes;
\* 0 when that way of matching fails
TimeMatchEnd(s, k, hlen, withMinutes) ==
  LET hourOk == /\ k + hlen - 1 <= Len(s)
                /\ IsDigit(s[k + hlen - 1])
                /\ hlen = 2 => s[k] \in {"0", "1"}
      p == k + hlen
      minOk == p + 2 <= Len(s) /\ s[p] = ":"
               /\ s[p + 1] \in {"0", "1", "2", "3", "4", "5"} /\ IsDigit(s[p + 2])
      q == IF withMinutes THEN p + 3 ELSE p
      r == SkipSpace(s, q)
      merOk == r + 1 <= Len(s)
               /\ Lower(SubSeq(s, r, r + 1)) \in {<<"a","m">>, <<"p","m">>}
  IN  IF hourOk /\ (withMinutes => minOk) /\ merOk THEN r + 1 ELSE 0

\* the ways the regular expression engine tries at one position, in its order:
\* the optional first digit taken before left out, the minutes taken before
\* left out
TimeTries == << <<2, TRUE>>, <<2, FALSE>>, <<1, TRUE>>, <<1, FALSE>> >>

TimeMatchAt(s, k) ==
  LET ok == {n \in DOMAIN TimeTries :
               TimeMatchEnd(s, k, TimeTries[n][1], TimeTries[n][2]) > 0}
  IN  IF ok = {} THEN 0
      ELSE TimeMatchEnd(s, k, TimeTries[Least(ok)][1], TimeTries[Least(ok)][2])

\* parse_time_from_text(s): the text of the first 12-hour clock expression
parse_time_from_text(s) ==
  IF ~TruthyStr(s) THEN NoneStr
  ELSE LET hits == {k \in 1..Len(s) : TimeMatchAt(s, k) > 0}
       IN  IF hits = {} THEN NoneStr
           ELSE SubSeq(s, Least(hits), TimeMatchAt(s, Least(hits)))

----------------------------------------------------------------------------
(* Dates and times. A naive datetime is a record of its calendar fields;   *)
(* an aware datetime is modelled by its instant, in seconds since          *)
(* 2020-01-01T00:00:00Z. All dates of the model lie between 2020 and 2099. *)

SecondsPerHour == 60 * 60
SecondsPerDay == 24 * SecondsPerHour

IsLeap(y) == y % 4 = 0 /\ (y % 100 # 0 \/ y % 400 = 0)

DaysInMonth(y, m) ==
  IF m = 2 THEN (IF IsLeap(y) THEN 29 ELSE 28)
  ELSE IF m \in {4, 6, 9, 11} THEN 30
  ELSE 31

DaysInYear(y) == IF IsLeap(y) THEN 366 ELSE 365

\* the days from 2020-01-01 to the first day of year y, for y in 2020..2100:
\* 365 for each year, and one more for each leap year 2020, 2024, ... before y
DaysBeforeYear(y) == 365 * (y - 2020) + (y - 2020 + 3) \div 4

\* the days from the first day of year y to the first day of its month m
RECURSIVE DaysBeforeMonth(_, _)
DaysBeforeMonth(y, m) ==
  IF m <= 1 THEN 0 ELSE DaysBeforeMonth(y, m - 1) + DaysInMonth(y, m - 1)

\* the seconds from 2020-01-01T00:00:00 to the naive datetime d, on d's clock
CivilSeconds(d) ==
  (DaysBeforeYear(d.year) + DaysBeforeMonth(d.year, d.month) + d.day - 1)
      * SecondsPerDay
    + d.hour * SecondsPerHour + d.minute * 60 + d.second

\* the naive datetime that is n seconds after 2020-01-01T00:00:00
CivilOf(n) ==
  LET days == n \div SecondsPerDay
      rest == n % SecondsPerDay
      y == CHOOSE yy \in 2020..2100 :
             DaysBeforeYear(yy) <= days /\ days < DaysBeforeYear(yy + 1)
      yday == days - DaysBeforeYear(y)
      m == CHOOSE mm \in 1..12 :
             /\ DaysBeforeMonth(y, mm) <= yday
             /\ yday < DaysBeforeMonth(y, mm) + DaysInMonth(y, mm)
  IN  [year |-> y, month |-> m, day |-> yday - DaysBeforeMonth(y, m) + 1,
       hour |-> rest \div SecondsPerHour,
       minute |-> (rest % SecondsPerHour) \div 60,
       second |-> rest % 60]

\* TIMEZONE = "America/Los_Angeles": the offset of local time from UTC. The
\* model keeps to the months of standard time (November to early March).
UtcOffset == 0 - 8 * SecondsPerHour

\* tz.localize(naive): the instant of a local wall-clock time
Localize(d) == CivilSeconds(d) - UtcOffset

\* dt.astimezone(tz): the local calendar fields of an instant
LocalFields(t) == CivilOf(t + UtcOffset)

\* dt.astimezone(pytz.utc).isoformat(): the text of the UTC calendar fields,
\* kept as the record of the fields it spells
IsoformatUtc(t) == CivilOf(t)

\* datetime.fromisoformat(text.replace("Z", "+00:00")) of such a text
FromIsoformat(iso) == CivilSeconds(iso)

\* dt + timedelta(hours = h)
PlusHours(t, h) == t + h * SecondsPerHour

----------------------------------------------------------------------------
(* datetime.strptime of f"{year}-{month_num:02d}-{int(day):02d} {time}"    *)

\* the fields of a time text that parse_time_from_text returned: the hour
\* digits, the minute digits (empty without minutes), the number of white
\* space characters before the meridiem, the meridiem
TimeFields(t) ==
  LET hlen == IF Len(t) >= 2 /\ IsDigit(t[2]) THEN 2 ELSE 1
      hasMin == Len(t) >= hlen + 1 /\ t[hlen + 1] = ":"
      q == IF hasMin THEN hlen + 4 ELSE hlen + 1
      r == SkipSpace(t, q)
  IN  [hour |-> SubSeq(t, 1, hlen),
       minute |-> IF hasMin THEN SubSeq(t, hlen + 2, hlen + 3) ELSE <<>>,
       spaces |-> r - q,
       meridiem |-> Lower(SubSeq(t, r, r + 1))]

\* %I: 1[0-2]|0[1-9]|[1-9], the whole run of hour digits
HourMatchesI(h) == IntOf(h) \in 1..12

\* %d of a day written with two digits: 3[0-1]|[1-2]\d|0[1-9], and then the
\* day must exist in the month
DateMatches(year, month_num, day) ==
  /\ month_num \in 1..12
  /\ day \in 1..31
  /\ day <= DaysInMonth(year, month_num)

\* the hour of the day of a 12-hour clock hour and its meridiem
Hour24(h, meridiem) ==
  (h % 12) + (IF meridiem = <<"p","m">> THEN 12 ELSE 0)

\* whether dt_text matches "%Y-%m-%d %I:%M %p" (withMinutes) or
\* "%Y-%m-%d %I %p": white space of the format stands for \s+, and the whole
\* text must be used up
StrptimeMatches(year, month_num, day, t, withMinutes) ==
  LET f == TimeFields(t)
  IN  /\ DateMatches(year, month_num, day)
      /\ HourMatchesI(f.hour)
      /\ (f.minute # <<>>) = withMinutes
      /\ f.spaces >= 1

\* the naive datetime strptime returns when the text matches
StrptimeValue(year, month_num, day, t) ==
  LET f == TimeFields(t)
  IN  [year |-> year, month |-> month_num, day |-> day,
       hour |-> Hour24(IntOf(f.hour), f.meridiem),
       minute |-> IF f.minute = <<>> THEN 0 ELSE IntOf(f.minute),
       second |-> 0]

----------------------------------------------------------------------------
(* parse_event_blocks. The document is modelled by what the bs4 searches   *)
(* of the source return for each "Doors:" text of the page, in document    *)
(* order. A block is a record of                                           *)
(*   container  the strings inside the parent of the "Doors:" text,        *)
(*   previous   get_text(strip=True) of the tags before the container,     *)
(*              the nearest first (find_all_previous),                     *)
(*   siblings   get_text(strip=True) of the following sibling tags,        *)
(*   headings   get_text(strip=True) of the h1..h4 tags in the container.  *)

TitlePreviousLimit == 10
TitleSiblingLimit == 6
DatePreviousLimit == 30
DefaultDurationHours == 2

DoorsLabel == <<"D","o","o","r","s",":">>
ShowLabel == <<"S","h","o","w",":">>

\* container.find(string=lambda s: needle in s): the first such string
FindString(strings, needle) ==
  LET hits == {k \in DOMAIN strings : Contains(strings[k], needle)}
  IN  IF hits = {} THEN NoneStr ELSE strings[Least(hits)]

\* the month labels the title search skips
MonthLabels == {Upper(MonthNames[n]) : n \in DOMAIN MonthNames}

\* the test of the first title search on one node's text
TitleCandidate(txt) ==
  /\ txt # <<>> /\ Len(txt) > 2 /\ IsPrintable(txt)
  /\ ~(Contains(txt, DoorsLabel) \/ Contains(txt, ShowLabel)
         \/ Upper(txt) \in MonthLabels)
  /\ Len(txt) > 5 /\ LineCount(txt) <= 2

\* the three title searches, each tried when the one before found nothing
FindTitle(b) ==
  LET space == Take(b.previous, TitlePreviousLimit)
      hits1 == {k \in DOMAIN space : TitleCandidate(space[k])}
      sibs == Take(b.siblings, TitleSiblingLimit)
      hits2 == {k \in DOMAIN sibs : sibs[k] # <<>> /\ Len(sibs[k]) > 5}
      hits3 == {k \in DOMAIN b.headings :
                  b.headings[k] # <<>> /\ Len(b.headings[k]) > 4}
  IN  IF hits1 # {} THEN space[Least(hits1)]
      ELSE IF hits2 # {} THEN sibs[Least(hits2)]
      ELSE IF hits3 # {} THEN b.headings[Least(hits3)]
      ELSE NoneStr

\* big: the non-empty texts before the container, joined
BigText(b) ==
  LET space == Take(b.previous, DatePreviousLimit)
  IN  Join(SelectSeq(space, LAMBDA t : t # <<>>), <<" ","|"," ">>)

\* MONTHS = {m.upper(): i for i, m in enumerate([...], 1)}: its keys
MonthsKeys == {Upper(MonthNames[n]) : n \in DOMAIN MonthNames}

\* MONTHS[key] for a key of the dict
MONTHS(key) == CHOOSE n \in DOMAIN MonthNames : Upper(MonthNames[n]) = key

\* MONTHS.get(key, default)
MonthsGet(key, default) == IF key \in MonthsKeys THEN MONTHS(key) ELSE default

\* the month of the block: group(1).title() of the month search
BlockMonth(b) ==
  LET m == SearchMonth(BigText(b))
  IN  IF m = NoneStr THEN NoneStr ELSE Title(m)

\* the year of the block: the explicit year of the page, else the current
\* year, or the next when the month of the block is more than one month back
BlockYear(b, now) ==
  LET y == SearchYear(BigText(b))
      month == BlockMonth(b)
      mon_num == MonthsGet(Title(month), now.month)
  IN  IF y # NoneInt THEN y
      ELSE IF TruthyStr(month) /\ mon_num < now.month - 1 THEN now.year + 1
      ELSE now.year

\* show_time_str: the "Show:" time when there is one, else the "Doors:" time
BlockTime(b) ==
  LET show_time_tag == FindString(b.container, ShowLabel)
      doors_time_tag == FindString(b.container, DoorsLabel)
      fromShow == IF TruthyStr(show_time_tag)
                  THEN parse_time_from_text(show_time_tag) ELSE NoneStr
  IN  IF ~TruthyStr(fromShow) /\ TruthyStr(doors_time_tag)
      THEN parse_time_from_text(doors_time_tag)
      ELSE fromShow

\* the check of the parsed bits without the time
MissingDataButTime(title, month, day, show_time_str) ==
  ~TruthyStr(title) \/ ~TruthyStr(month) \/ ~TruthyInt(day)

\* if not title or not month or not day or not show_time_str: continue
MissingData(title, month, day, show_time_str) ==
  ~TruthyStr(title) \/ ~TruthyStr(month) \/ ~TruthyInt(day)
    \/ ~TruthyStr(show_time_str)

\* hashlib.sha1(f"{title}|{start.isoformat()}"): the hash is modelled by the
\* text it is taken of, the title and the local calendar fields of the start
PrivateId(title, start) == [title |-> title, start |-> LocalFields(start)]

\* the event object of a block
EventObject(title, start) ==
  [title |-> Strip(title),
   start |-> start,
   end |-> PlusHours(start, DefaultDurationHours),
   description |-> <<>>,
   ticket_url |-> NoneStr,
   private_id |-> PrivateId(Strip(title), start)]

NoEvent == [title |-> NoneStr]

\* datetime.strptime under the first grammar, under the second when the first
\* raises ValueError, tz.localize, and the event object; the ValueError of
\* the second grammar is not caught
BuildEvent(locals, month_num) ==
  IF /\ ~StrptimeMatches(locals.year, month_num, locals.day,
                         locals.show_time_str, TRUE)
     /\ ~StrptimeMatches(locals.year, month_num, locals.day,
                         locals.show_time_str, FALSE)
  THEN [kind |-> "raised", exc |-> "ValueError", locals |-> locals,
        event |-> NoEvent]
  ELSE [kind |-> "event", exc |-> "none", locals |-> locals,
        event |-> EventObject(locals.title,
                    Localize(StrptimeValue(locals.year, month_num, locals.day,
                                           locals.show_time_str)))]

\* the pass from the check of the parsed bits on: "skipped" (continue),
\* "raised" (an exception leaves the function: MONTHS[month.title()] is a
\* KeyError for a key the dict does not hold) or "event" (an event object is
\* appended)
BlockResult(locals) ==
  IF MissingData(locals.title, locals.month, locals.day, locals.show_time_str)
  THEN [kind |-> "skipped", exc |-> "none", locals |-> locals,
        event |-> NoEvent]
  ELSE IF Title(locals.month) \notin MonthsKeys
  THEN [kind |-> "raised", exc |-> "KeyError", locals |-> locals,
        event |-> NoEvent]
  ELSE BuildEvent(locals, MONTHS(Title(locals.month)))

\* One pass of the loop over the "Doors:" texts: the values of its local
\* variables and how it ends
ParseBlock(b, now) ==
  CHOOSE r \in
    {BlockResult([title |-> title, month |-> month, day |-> day,
                  year |-> year, show_time_str |-> show_time_str]) :
       title \in {FindTitle(b)},
       month \in {BlockMonth(b)},
       day \in {SearchDay(BigText(b))},
       year \in {BlockYear(b, now)},
       show_time_str \in {BlockTime(b)}} : TRUE

\* unique = {}; for e in events: unique[e["private_id"]] = e;
\* list(unique.values()): one entry for each private_id, in the order the ids
\* first came, each holding the last event of its id
Dedup(events) ==
  LET firsts == {k \in DOMAIN events :
                   \A j \in 1..(k - 1) :
                     events[j].private_id # events[k].private_id}
      lastOf(k) == CHOOSE j \in DOMAIN events :
                     /\ events[j].private_id = events[k].private_id
                     /\ \A n \in DOMAIN events :
                          events[n].private_id = events[k].private_id => n <= j
      RECURSIVE Build(_)
      Build(k) ==
        IF k > Len(events) THEN <<>>
        ELSE IF k \in firsts THEN <<events[lastOf(k)]>> \o Build(k + 1)
        ELSE Build(k + 1)
  IN  Build(1)

----------------------------------------------------------------------------
(* The remote calendar and find_existing_event / upsert_event. A remote    *)
(* record holds id, summary, description, the isoformat texts of start and *)
(* end, and the private id; the store is the sequence of its records.      *)

WindowHours == 2
MaxResults == 10
MatchSeconds == 60

NoItem == [id |-> 0]

\* the instant a record starts at
StartOf(it) == FromIsoformat(it.start)

\* the records at the positions pos of the store, ordered by start time
\* (orderBy="startTime"), records of one start time in the order of the
\* store; starts[k] is the instant the record at k starts at
RECURSIVE OrderByStart(_, _, _)
OrderByStart(store, starts, pos) ==
  IF pos = {} THEN <<>>
  ELSE LET k == CHOOSE a \in pos :
                  \A c \in pos :
                    starts[a] < starts[c] \/ (starts[a] = starts[c] /\ a <= c)
       IN  <<store[k]>> \o OrderByStart(store, starts, pos \ {k})

\* the instant a record ends at
EndOf(it) == FromIsoformat(it.end)

\* the positions of the records the window [lo, hi] holds: timeMin bounds
\* the end of a record from below, timeMax its start from above, both
\* exclusive
InWindow(starts, ends, lo, hi) ==
  {k \in DOMAIN starts : lo < ends[k] /\ starts[k] < hi}

\* the records of the window, in the order of the list
Window(store, starts, ends, lo, hi) ==
  OrderByStart(store, starts, InWindow(starts, ends, lo, hi))

\* service.events().list(timeMin, timeMax, singleEvents=True,
\* orderBy="startTime", maxResults=10).execute().get("items", []): the first
\* page of the records of the window
ListEvents(store, time_min, time_max) ==
  Take(Window(store, [k \in DOMAIN store |-> StartOf(store[k])],
              [k \in DOMAIN store |-> EndOf(store[k])],
              FromIsoformat(time_min), FromIsoformat(time_max)),
       MaxResults)

Abs(n) == IF n < 0 THEN 0 - n ELSE n

\* a test by the private id of the record instead of its title and start
ItemMatchesByPrivateId(it, title, start_dt) ==
  it.private = PrivateId(Strip(title), start_dt)

\* the test without the case folding of the two titles
ItemMatchesCaseSensitive(it, title, start_dt) ==
  /\ Strip(it.summary) = Strip(title)
  /\ Abs(FromIsoformat(it.start) - start_dt) < MatchSeconds

\* the test of find_existing_event on one item of the list
ItemMatches(it, title, start_dt) ==
  LET it_summary == it.summary
      it_start_loc == FromIsoformat(it.start)
  IN  /\ Lower(Strip(it_summary)) = Lower(Strip(title))
      /\ Abs(it_start_loc - start_dt) < MatchSeconds

\* the items find_existing_event looks at
FindItems(store, start_dt) ==
  ListEvents(store,
             IsoformatUtc(PlusHours(start_dt, 0 - WindowHours)),
             IsoformatUtc(PlusHours(start_dt, WindowHours)))

\* a loop that keeps the last item that matches instead of returning the first
LastMatch(items, title, start_dt) ==
  LET hits == {k \in DOMAIN items : ItemMatches(items[k], title, start_dt)}
  IN  IF hits = {} THEN NoItem
      ELSE items[CHOOSE k \in hits : \A n \in hits : n <= k]

\* for it in items: ... return it; return None: the first item that matches
FirstMatch(items, title, start_dt) ==
  LET hits == {k \in DOMAIN items : ItemMatches(items[k], title, start_dt)}
  IN  IF hits = {} THEN NoItem ELSE items[Least(hits)]

\* find_existing_event
find_existing_event(store, title, start_dt) ==
  FirstMatch(FindItems(store, start_dt), title, start_dt)

\* event_body of upsert_event
EventBody(event_obj) ==
  [summary |-> event_obj.title,
   description |-> IF TruthyStr(event_obj.ticket_url)
                   THEN Strip(event_obj.description
                              \o <<"\n","\n","T","i","c","k","e","t",":"," ">>
                              \o event_obj.ticket_url)
                   ELSE event_obj.description,
   start |-> IsoformatUtc(event_obj.start),
   end |-> IsoformatUtc(event_obj.end),
   private |-> event_obj.private_id]

\* a record of the store: a body under an id
Stored(id, body) ==
  [id |-> id, summary |-> body.summary, description |-> body.description,
   start |-> body.start, end |-> body.end, private |-> body.private]

\* an upsert_event that inserts whatever the lookup returned
UpsertRequestAlwaysInsert(existing) == [kind |-> "insert", eventId |-> 0]

\* the request upsert_event sends once the lookup returned existing
UpsertRequest(existing) ==
  IF existing # NoItem THEN [kind |-> "patch", eventId |-> existing.id]
  ELSE [kind |-> "insert", eventId |-> 0]

\* the store after a request that succeeded
Apply(store, req, body, new_id) ==
  IF req.kind = "insert" THEN Append(store, Stored(new_id, body))
  ELSE [k \in DOMAIN store |->
          IF store[k].id = req.eventId THEN Stored(req.eventId, body)
          ELSE store[k]]

----------------------------------------------------------------------------
(* The inputs of the model: texts, blocks, documents, clocks, events,      *)
(* remote stores and configurations, each drawn from a small set.          *)

TxtShow8 == <<"S","h","o","w",":"," ","8",":","0","0"," ","p","m">>

TxtDoors7 == <<"D","o","o","r","s",":"," ","7",":","0","0"," ","p","m">>

TxtDoors7NoMinutes == <<"D","o","o","r","s",":"," ","7"," ","p","m">>

TxtDoorsTba == <<"D","o","o","r","s",":"," ","T","B","A">>

TxtDoors13 == <<"D","o","o","r","s",":"," ","1","3",":","0","0"," ","p","m">>

TxtMidnightRevue == <<"M","i","d","n","i","g","h","t"," ","R","e","v","u","e">>

TxtDec6 == <<"D","e","c"," ","6">>

TxtLateShow == <<"L","a","t","e"," ","S","h","o","w"," ","L","i","v","e">>

TxtDec7 == <<"D","e","c"," ","7">>

TxtNewYearBash == <<"N","e","w"," ","Y","e","a","r"," ","B","a","s","h">>

TxtJan15 == <<"J","A","N"," ","1","5">>

TxtOpenMic == <<"O","p","e","n"," ","M","i","c"," ","N","i","g","h","t">>

TxtDec9 == <<"D","e","c"," ","9">>

TxtLeapParty == <<"L","e","a","p"," ","P","a","r","t","y">>

TxtFeb30 == <<"F","e","b"," ","3","0">>

TxtSpringGala == <<"S","p","r","i","n","g"," ","G","a","l","a">>

TxtMar3Year == <<"M","a","r"," ","3"," ","2","0","2","7">>

TxtJazzTrio == <<"J","a","z","z"," ","T","r","i","o">>

TxtDec8 == <<"D","e","c"," ","8">>

TxtTestShow == <<"T","e","s","t"," ","S","h","o","w">>

TxtTestShowLower == <<"t","e","s","t"," ","s","h","o","w">>

TxtTestShowPadded == <<" ","T","E","S","T"," ","S","H","O","W"," ">>

TxtOtherAct == <<"O","t","h","e","r"," ","A","c","t">>

TxtFiller == <<"R","e","h","e","a","r","s","a","l">>

TxtCalendar == <<"c","a","l","@","g","r","o","u","p">>

TxtServiceAccount == <<"{","s","a","}">>

TxtEmptyObject == <<"{","}">>

TxtNotJson == <<"o","o","p","s">>

\* the blocks: what the searches return for one "Doors:" text of a page
Block(container, previous, siblings, headings) ==
  [container |-> container, previous |-> previous, siblings |-> siblings,
   headings |-> headings]

\* show and doors time in the container, title and date before it
CardRevue == Block(<<TxtShow8, TxtDoors7>>, <<TxtMidnightRevue, TxtDec6>>, <<>>, <<>>)

\* the "Show:" text in a tag before the container, not in it
CardShowBefore == Block(<<TxtDoors7>>, <<TxtShow8, TxtMidnightRevue, TxtDec6>>, <<>>, <<>>)

\* no clock expression at all
CardNoTime == Block(<<TxtDoorsTba>>, <<TxtLateShow, TxtDec7>>, <<>>, <<>>)

\* a month before the current one, no year, a time without minutes
CardJan == Block(<<TxtDoors7NoMinutes>>, <<TxtNewYearBash, TxtJan15>>, <<>>, <<>>)

\* an hour no 12-hour clock has
CardBadTime == Block(<<TxtDoors13>>, <<TxtOpenMic, TxtDec9>>, <<>>, <<>>)

\* a day the month does not have
CardBadDate == Block(<<TxtDoors7>>, <<TxtLeapParty, TxtFeb30>>, <<>>, <<>>)

\* an explicit year
CardYear == Block(<<TxtDoors7>>, <<TxtSpringGala, TxtMar3Year>>, <<>>, <<>>)

\* the title only in a following sibling
CardSiblingTitle == Block(<<TxtDoors7>>, <<TxtDec8>>, <<TxtJazzTrio>>, <<>>)

\* no title anywhere
CardNoTitle == Block(<<TxtDoors7>>, <<TxtDec8>>, <<>>, <<>>)

Blocks ==
  {CardRevue, CardShowBefore, CardNoTime, CardJan, CardBadTime,
   CardBadDate, CardYear, CardSiblingTitle, CardNoTitle}

\* the most "Doors:" texts of a page
MaxBlocks == 2

\* the sequences of at most n members of S
SeqsUpTo(S, n) == UNION {[1..k -> S] : k \in 0..n}

Documents == SeqsUpTo(Blocks, MaxBlocks)

Naive(y, mo, d, h, mi, sec) ==
  [year |-> y, month |-> mo, day |-> d, hour |-> h, minute |-> mi,
   second |-> sec]

\* datetime.now(tz): the local date and time of the run
ClockNov20 == Naive(2026, 11, 20, 9, 0, 0)
ClockJan10 == Naive(2027, 1, 10, 9, 0, 0)
Clocks == {ClockNov20, ClockJan10}

\* 20:00 local time on 2026-12-06
ShowTime == Localize(Naive(2026, 12, 6, 20, 0, 0))

\* the batches of the write loop: event objects as parse_event_blocks builds
\* them, and with starts off the full minute for the match tolerance
EventTestShow45 == EventObject(TxtTestShowLower, ShowTime + 45)
EventTestShow120 == EventObject(TxtTestShowLower, ShowTime + 120)
EventOtherAct == EventObject(TxtOtherAct, ShowTime)
BatchEvents == {EventTestShow45, EventTestShow120, EventOtherAct}

\* the most events of a batch
MaxBatch == 2

Batches == SeqsUpTo(BatchEvents, MaxBatch) \ {<<>>}

\* the arguments of find_existing_event taken alone
FindTitles == {TxtTestShowLower, TxtTestShowPadded, TxtOtherAct}
FindOffsets == {0 - 120, 0 - 60, 0 - 59, 0, 45, 59, 60, 120}
FindArguments ==
  {EventObject(t, ShowTime + d) : t \in FindTitles, d \in FindOffsets}

\* the private id of a record this program did not write
NoPrivateId == [title |-> NoneStr, start |-> CivilOf(0)]

\* a record of the calendar as its owner entered it
Entered(id, title, start) ==
  [id |-> id, summary |-> title, description |-> <<>>,
   start |-> IsoformatUtc(start),
   end |-> IsoformatUtc(PlusHours(start, 1)),
   private |-> NoPrivateId]

StoreEmpty == <<>>
StoreOne == <<Entered(1, TxtTestShow, ShowTime)>>
StoreTwo ==
  <<Entered(1, TxtTestShowPadded, ShowTime + 30),
    Entered(2, TxtTestShow, ShowTime)>>
\* as many other records in the hour before the show as one page holds
StoreBusy ==
  [k \in 1..MaxResults |-> Entered(k, TxtFiller, ShowTime - SecondsPerHour)]
Stores == {StoreEmpty, StoreOne, StoreTwo, StoreBusy}

\* the environment variables: None when unset
CalendarIds == {NoneStr, TxtCalendar}
ServiceAccountJsons == {NoneStr, TxtServiceAccount, TxtNotJson}
Configs ==
  {[CALENDAR_ID |-> c, SERVICE_ACCOUNT_JSON |-> j] :
     c \in CalendarIds, j \in ServiceAccountJsons}
GoodConfig ==
  [CALENDAR_ID |-> TxtCalendar, SERVICE_ACCOUNT_JSON |-> TxtServiceAccount]

\* the most read or write requests that fail in one behaviour
MaxFailures == 2

----------------------------------------------------------------------------
(* The state: main() and the two functions it is built of, each run from   *)
(* its own entry.                                                          *)

VARIABLES
  entry,          \* what is run: "main", the write loop of main with a batch
                  \* ("upsert_loop"), or "find_existing_event" alone
  pc,             \* where the run is
  run,            \* "first" or "second": the program is run again with the
                  \* same inputs
  config,         \* CALENDAR_ID and SERVICE_ACCOUNT_JSON
  clock,          \* datetime.now(tz), the same throughout
  page,           \* the document the site serves
  store,          \* the records of the remote calendar
  next_id,        \* the id the calendar gives the next record it inserts
  html,           \* main: the fetched document
  i,              \* parse_event_blocks: the block the loop is at
  events,         \* parse_event_blocks: events
  outcomes,       \* how each pass of the loop of parse_event_blocks ended
  parsed_events,  \* main: what parse_event_blocks returned
  to_upsert,      \* main: the events of the look-ahead window
  j,              \* main: the event the write loop is at
  calls,          \* the calls of upsert_event of this run, each with the
                  \* requests it sent to the calendar
  lookup,         \* the last call of find_existing_event: its arguments, the
                  \* items the list returned and its result
  exc,            \* the exception that ended the run, "none" otherwise
  failures,       \* the requests to the calendar that failed so far
  count1          \* the number of records when the first run ended

vars ==
  <<entry, pc, run, config, clock, page, store, next_id, html, i, events,
    outcomes, parsed_events, to_upsert, j, calls, lookup, exc, failures,
    count1>>

EVENT_LOOKAHEAD_DAYS == 365

NoDocument == [fetched |-> FALSE, blocks |-> <<>>]
NoLookup == [called |-> FALSE]

\* the local variables of main at its start
Fresh ==
  /\ html = NoDocument
  /\ i = 1
  /\ events = <<>>
  /\ outcomes = <<>>
  /\ parsed_events = <<>>
  /\ j = 1
  /\ calls = <<>>
  /\ lookup = NoLookup
  /\ exc = "none"

InitMain ==
  /\ entry = "main"
  /\ pc = "main"
  /\ config \in Configs
  /\ page \in Documents
  /\ store = StoreOne
  /\ to_upsert = <<>>

InitLoop ==
  /\ entry = "upsert_loop"
  /\ pc = "upsert_loop"
  /\ config = GoodConfig
  /\ page = <<>>
  /\ store \in Stores
  /\ to_upsert \in Batches

InitFind ==
  /\ entry = "find_existing_event"
  /\ pc = "find_existing_event"
  /\ config = GoodConfig
  /\ page = <<>>
  /\ store \in Stores
  /\ to_upsert \in {<<e>> : e \in FindArguments}

Init ==
  /\ InitMain \/ InitLoop \/ InitFind
  /\ run = "first"
  /\ clock \in (IF entry = "main" THEN Clocks ELSE {ClockNov20})
  /\ next_id = Len(store) + 1
  /\ failures = 0
  /\ count1 = NoneInt
  /\ Fresh

Raise(name) == pc' = "raised" /\ exc' = name

\* a main without the check of CALENDAR_ID
CalendarIdNeverMissing(c) == FALSE

\* main: if not CALENDAR_ID: raise RuntimeError
CalendarIdMissing(c) == ~TruthyStr(c.CALENDAR_ID)

CheckCalendarId ==
  /\ pc = "main"
  /\ IF CalendarIdMissing(config) THEN Raise("RuntimeError")
     ELSE pc' = "load_credentials" /\ exc' = exc
  /\ UNCHANGED <<entry, run, config, clock, page, store, next_id, html, i,
                 events, outcomes, parsed_events, to_upsert, j, calls, lookup,
                 failures, count1>>

\* load_credentials: what it raises, "none" when it returns the credentials.
\* json.loads refuses a text that is no JSON, from_service_account_info a
\* document without the fields of a service account.
load_credentials(c) ==
  IF ~TruthyStr(c.SERVICE_ACCOUNT_JSON) THEN "RuntimeError"
  ELSE IF c.SERVICE_ACCOUNT_JSON \notin {TxtServiceAccount, TxtEmptyObject}
  THEN "JSONDecodeError"
  ELSE IF c.SERVICE_ACCOUNT_JSON # TxtServiceAccount THEN "ValueError"
  ELSE "none"

LoadCredentials ==
  /\ pc = "load_credentials"
  /\ IF load_credentials(config) # "none" THEN Raise(load_credentials(config))
     ELSE pc' = "build_gcal_service" /\ exc' = exc
  /\ UNCHANGED <<entry, run, config, clock, page, store, next_id, html, i,
                 events, outcomes, parsed_events, to_upsert, j, calls, lookup,
                 failures, count1>>

\* build_gcal_service: builds the client, sends nothing
BuildGcalService ==
  /\ pc = "build_gcal_service"
  /\ pc' = "fetch_events_page"
  /\ UNCHANGED <<entry, run, config, clock, page, store, next_id, html, i,
                 events, outcomes, parsed_events, to_upsert, j, calls, lookup,
                 exc, failures, count1>>

\* fetch_events_page: the document, or the exception of requests
FetchEventsPage(ok) ==
  /\ pc = "fetch_events_page"
  /\ IF ok
     THEN /\ html' = [fetched |-> TRUE, blocks |-> page]
          /\ pc' = "parse_event_blocks"
          /\ exc' = exc
     ELSE /\ html' = html
          /\ Raise("RequestException")
  /\ UNCHANGED <<entry, run, config, clock, page, store, next_id, i, events,
                 outcomes, parsed_events, to_upsert, j, calls, lookup,
                 failures, count1>>

\* parse_event_blocks: one pass of its loop
ParseStep ==
  /\ pc = "parse_event_blocks"
  /\ i <= Len(html.blocks)
  /\ \E r \in {ParseBlock(html.blocks[i], clock)} :
         /\ outcomes' = Append(outcomes, [kind |-> r.kind, exc |-> r.exc,
                                          locals |-> r.locals])
         /\ events' = IF r.kind = "event" THEN Append(events, r.event)
                      ELSE events
         /\ IF r.kind = "raised" THEN Raise(r.exc) /\ i' = i
            ELSE pc' = pc /\ exc' = exc /\ i' = i + 1
  /\ UNCHANGED <<entry, run, config, clock, page, store, next_id, html,
                 parsed_events, to_upsert, j, calls, lookup, failures, count1>>

\* parse_event_blocks: after the loop, de-duplicate and return
ParseReturn ==
  /\ pc = "parse_event_blocks"
  /\ i > Len(html.blocks)
  /\ parsed_events' = Dedup(events)
  /\ pc' = "lookahead"
  /\ UNCHANGED <<entry, run, config, clock, page, store, next_id, html, i,
                 events, outcomes, to_upsert, j, calls, lookup, exc, failures,
                 count1>>

\* now - timedelta(days=1) <= e["start"] <= now + timedelta(days=365)
InLookahead(e, now) ==
  /\ Localize(now) - SecondsPerDay <= e.start
  /\ e.start <= Localize(now) + EVENT_LOOKAHEAD_DAYS * SecondsPerDay

\* main: limit to lookahead
Lookahead ==
  /\ pc = "lookahead"
  /\ to_upsert' = SelectSeq(parsed_events, LAMBDA e : InLookahead(e, clock))
  /\ pc' = "upsert_loop"
  /\ UNCHANGED <<entry, run, config, clock, page, store, next_id, html, i,
                 events, outcomes, parsed_events, j, calls, lookup, exc,
                 failures, count1>>

\* how a call of upsert_event goes: the list request raises, the write
\* request raises, or neither
Outcomes == {"ok", "list raises", "write raises"}

\* a write loop without the try: the exception of a request ends the run
AfterUpsertUncaught(outcome) ==
  IF outcome = "ok" THEN "upsert_loop" ELSE "raised"

\* main: try: upsert_event(...) except Exception: logger.exception(...):
\* where the run is after a call of upsert_event that went this way
AfterUpsert(outcome) == "upsert_loop"

\* main: one pass of the write loop, a call of upsert_event
UpsertStep(outcome) ==
  /\ pc = "upsert_loop"
  /\ j <= Len(to_upsert)
  /\ outcome # "ok" => failures < MaxFailures
  /\ \E event_obj \in {to_upsert[j]} :
     \E items \in {FindItems(store, event_obj.start)} :
     \E existing \in {FirstMatch(items, event_obj.title, event_obj.start)} :
     \E req \in {UpsertRequest(existing)} :
         IF outcome = "list raises"
         THEN /\ lookup' = [called |-> TRUE, title |-> event_obj.title,
                            start |-> event_obj.start, raised |-> TRUE]
              /\ calls' = Append(calls, [event |-> j, lookup |-> "raised",
                                         found |-> 0, requests |-> <<>>,
                                         raised |-> TRUE])
              /\ UNCHANGED <<store, next_id>>
         ELSE /\ lookup' = [called |-> TRUE, title |-> event_obj.title,
                            start |-> event_obj.start, raised |-> FALSE,
                            items |-> items, found |-> existing]
              /\ calls' = Append(calls, [event |-> j, lookup |-> "returned",
                                         found |-> existing.id,
                                         requests |-> <<req>>,
                                         raised |-> outcome # "ok"])
              /\ IF outcome = "ok"
                 THEN /\ store' = Apply(store, req, EventBody(event_obj), next_id)
                      /\ next_id' = IF req.kind = "insert" THEN next_id + 1
                                    ELSE next_id
                 ELSE UNCHANGED <<store, next_id>>
  /\ failures' = IF outcome = "ok" THEN failures ELSE failures + 1
  /\ j' = j + 1
  /\ pc' = AfterUpsert(outcome)
  /\ exc' = IF AfterUpsert(outcome) = "raised" THEN "HttpError" ELSE exc
  /\ UNCHANGED <<entry, run, config, clock, page, html, i, events, outcomes,
                 parsed_events, to_upsert, count1>>

\* main: the write loop is through
Return ==
  /\ pc = "upsert_loop"
  /\ j > Len(to_upsert)
  /\ pc' = "done"
  /\ UNCHANGED <<entry, run, config, clock, page, store, next_id, html, i,
                 events, outcomes, parsed_events, to_upsert, j, calls, lookup,
                 exc, failures, count1>>

\* find_existing_event called alone, its list request answered
FindCall ==
  /\ pc = "find_existing_event"
  /\ \E a \in {to_upsert[1]} :
         lookup' = [called |-> TRUE, title |-> a.title, start |-> a.start,
                    raised |-> FALSE, items |-> FindItems(store, a.start),
                    found |-> find_existing_event(store, a.title, a.start)]
  /\ pc' = "done"
  /\ UNCHANGED <<entry, run, config, clock, page, store, next_id, html, i,
                 events, outcomes, parsed_events, to_upsert, j, calls, exc,
                 failures, count1>>

\* the program is run a second time: the same configuration, document, clock
\* and batch, the calendar as the first run left it
Rerun ==
  /\ entry \in {"main", "upsert_loop"}
  /\ pc \in {"done", "raised"}
  /\ run = "first"
  /\ run' = "second"
  /\ count1' = Len(store)
  /\ pc' = entry
  /\ to_upsert' = IF entry = "main" THEN <<>> ELSE to_upsert
  /\ html' = NoDocument
  /\ i' = 1
  /\ events' = <<>>
  /\ outcomes' = <<>>
  /\ parsed_events' = <<>>
  /\ j' = 1
  /\ calls' = <<>>
  /\ lookup' = NoLookup
  /\ exc' = "none"
  /\ UNCHANGED <<entry, config, clock, page, store, next_id, failures>>

Next ==
  \/ CheckCalendarId
  \/ LoadCredentials
  \/ BuildGcalService
  \/ \E ok \in BOOLEAN : FetchEventsPage(ok)
  \/ ParseStep
  \/ ParseReturn
  \/ Lookahead
  \/ \E outcome \in Outcomes : UpsertStep(outcome)
  \/ Return
  \/ FindCall
  \/ Rerun

Spec == Init /\ [][Next]_vars

----------------------------------------------------------------------------
(* The properties. A run is "through" when pc = "done"; the records of     *)
(* calls, lookup and outcomes keep what the calls of this run did.         *)

OneWritePerReturnedLookup ==
  \A k \in DOMAIN calls :
    IF calls[k].lookup = "returned"
    THEN /\ Len(calls[k].requests) = 1
         /\ calls[k].found = 0 =>
              calls[k].requests[1].kind = "insert"
         /\ calls[k].found # 0 =>
              /\ calls[k].requests[1] =
                   [kind |-> "patch", eventId |-> calls[k].found]
              /\ \E n \in DOMAIN store : store[n].id = calls[k].found
    ELSE calls[k].requests = <<>>

\* a batch of which the first event was patched and the second inserted
PatchedThenInserted ==
  /\ Len(calls) = 2
  /\ calls[1].lookup = "returned" /\ calls[1].found = 1
  /\ calls[1].requests = <<[kind |-> "patch", eventId |-> 1]>>
  /\ calls[2].lookup = "returned" /\ calls[2].found = 0
  /\ calls[2].requests = <<[kind |-> "insert", eventId |-> 0]>>

\* C2 as the specification words it: every event passed to upsert_event has
\* exactly one write request issued for it
OneWritePerEvent ==
  \A k \in DOMAIN calls : Len(calls[k].requests) = 1

\* the rule of C3: the titles are equal once trimmed and case folded, and
\* the starts are less than 60 seconds apart
TitleAndStartAgree(it, title, start_dt) ==
  /\ Lower(Strip(it.summary)) = Lower(Strip(title))
  /\ 0 - 60 < FromIsoformat(it.start) - start_dt
  /\ FromIsoformat(it.start) - start_dt < 60

\* C3: the record find_existing_event returns is an item of the list that
\* agrees with the event in title (trimmed, case folded) and in start (less
\* than 60 seconds apart), and it returns None only when no item of the list
\* does; so "Test Show" at 20:00 is returned for "test show" at 20:00:45 and
\* not for "test show" at 20:02:00.
MatchIsTitleAndStart ==
  (lookup.called /\ ~lookup.raised) =>
    /\ lookup.found # NoItem =>
         /\ \E k \in DOMAIN lookup.items : lookup.items[k] = lookup.found
         /\ TitleAndStartAgree(lookup.found, lookup.title, lookup.start)
    /\ lookup.found = NoItem =>
         \A k \in DOMAIN lookup.items :
           ~TitleAndStartAgree(lookup.items[k], lookup.title, lookup.start)
    /\ (/\ entry = "find_existing_event" /\ store = StoreOne
        /\ lookup.title = TxtTestShowLower) =>
         /\ lookup.start = ShowTime + 45 => lookup.found = StoreOne[1]
         /\ lookup.start = ShowTime + 120 => lookup.found = NoItem

\* "Test Show" at 20:00 was found for "test show" at 20:00:45
FoundDespiteCaseAndSeconds ==
  /\ entry = "find_existing_event" /\ pc = "done"
  /\ store = StoreOne
  /\ lookup.called /\ ~lookup.raised
  /\ lookup.title = TxtTestShowLower
  /\ lookup.start = ShowTime + 45
  /\ lookup.found = StoreOne[1]
  /\ StoreOne[1].summary = TxtTestShow
  /\ FromIsoformat(StoreOne[1].start) = ShowTime

\* two events of one private_id among these
SharesPrivateId(es) ==
  \E a, c \in DOMAIN es : a # c /\ es[a].private_id = es[c].private_id

\* C4: the list parse_event_blocks returns holds no private_id twice, and
\* for a document of two blocks that give the same title and start it is
\* returned and holds one event. Stated as the specification states it; it
\* does not hold: for such a document parse_event_blocks returns nothing, it
\* raises KeyError at the first of the two blocks.
OneEventPerPrivateId ==
  /\ ~SharesPrivateId(parsed_events)
  /\ (entry = "main" /\ html.fetched /\ html.blocks = <<CardRevue, CardRevue>>) =>
       /\ pc # "raised"
       /\ pc # "parse_event_blocks" => Len(parsed_events) = 1

\* the document of two equal blocks ended the run at its first block
TwoEqualBlocksRaised ==
  /\ entry = "main" /\ html.blocks = <<CardRevue, CardRevue>>
  /\ pc = "raised" /\ exc = "KeyError"
  /\ Len(outcomes) = 1 /\ parsed_events = <<>>

\* C5: a request that fails in the write loop does not end it: the calls of
\* upsert_event are made in the order of the batch, no run ends by an
\* exception once the loop has begun, and a run that is through has called
\* upsert_event for every event of the batch, whichever of the calls failed.
FailureDoesNotStopLoop ==
  /\ \A k \in DOMAIN calls : calls[k].event = k
  /\ pc = "raised" => calls = <<>>
  /\ (pc = "done" /\ entry \in {"main", "upsert_loop"}) =>
       Len(calls) = Len(to_upsert)
  /\ (pc = "upsert_loop" /\ entry \in {"main", "upsert_loop"}) =>
       Len(calls) = j - 1

\* the first call failed at its list request, the second was made and wrote
CalledAfterFailure ==
  /\ entry = "upsert_loop" /\ pc = "done"
  /\ Len(to_upsert) = 2 /\ Len(calls) = 2
  /\ calls[1].raised /\ calls[1].lookup = "raised"
  /\ ~calls[2].raised /\ Len(calls[2].requests) = 1

\* CALENDAR_ID or SERVICE_ACCOUNT_JSON is not set
ConfigurationMissing ==
  config.CALENDAR_ID = NoneStr \/ config.SERVICE_ACCOUNT_JSON = NoneStr

\* C6: with the calendar id or the service-account credentials missing, main
\* ends by RuntimeError before anything is processed: the document is not
\* fetched, no block is parsed, find_existing_event is not called and no
\* write request is sent; the calendar is as it was.
MissingConfigurationStopsRun ==
  (entry = "main" /\ ConfigurationMissing) =>
    /\ pc \in {"main", "load_credentials", "raised"}
    /\ pc = "raised" => exc = "RuntimeError"
    /\ html = NoDocument
    /\ outcomes = <<>> /\ events = <<>> /\ parsed_events = <<>>
    /\ lookup = NoLookup
    /\ calls = <<>>
    /\ store = StoreOne /\ next_id = Len(StoreOne) + 1

\* main ended at load_credentials, the credentials not set
StoppedWithoutCredentials ==
  /\ entry = "main" /\ pc = "raised" /\ exc = "RuntimeError"
  /\ config.CALENDAR_ID = TxtCalendar
  /\ config.SERVICE_ACCOUNT_JSON = NoneStr
  /\ html = NoDocument /\ calls = <<>>

\* no string of the container of the block holds a clock expression
NoTimeInContainer(b) ==
  \A k \in DOMAIN b.container : parse_time_from_text(b.container[k]) = NoneStr

\* C7: a block for which no time is found, by the "Show:" text or by the
\* "Doors:" text, is skipped: no event is appended for it, no exception is
\* raised for it, and the loop goes on to the next block.
BlockWithoutTimeIsSkipped ==
  /\ Len(events) = Len(SelectSeq(outcomes, LAMBDA o : o.kind = "event"))
  /\ pc = "parse_event_blocks" => i = Len(outcomes) + 1
  /\ \A k \in DOMAIN outcomes :
       (\/ outcomes[k].locals.show_time_str = NoneStr
        \/ NoTimeInContainer(html.blocks[k])) =>
         /\ outcomes[k].kind = "skipped"
         /\ outcomes[k].exc = "none"
         /\ k = Len(outcomes) => pc # "raised"

\* the block without a time was skipped and the block after it was parsed
SkippedAndWentOn ==
  /\ entry = "main" /\ Len(outcomes) = 2
  /\ html.blocks[1] = CardNoTime
  /\ outcomes[1].kind = "skipped"
  /\ outcomes[1].locals.title = TxtLateShow
  /\ outcomes[1].locals.show_time_str = NoneStr
  /\ html.blocks[2] = CardRevue
  /\ outcomes[2].kind # "skipped"

\* C8: a block that passes the check of the parsed bits and whose date or
\* time cannot be resolved is discarded alone: no pass of the loop of
\* parse_event_blocks ends by an exception, and no KeyError or ValueError of
\* a block ends the run. Stated as the specification states it; it does not
\* hold: MONTHS[month.title()] raises KeyError and nothing catches it.
NoBlockFailureEscapes ==
  /\ \A k \in DOMAIN outcomes : outcomes[k].kind # "raised"
  /\ ~(pc = "raised" /\ html.fetched)

\* the block with the hour 13 ended the run, the block after it never parsed
BlockFailureEndedRun ==
  /\ entry = "main" /\ pc = "raised" /\ exc = "KeyError"
  /\ html.blocks = <<CardBadTime, CardNoTime>>
  /\ Len(outcomes) = 1 /\ outcomes[1].kind = "raised"
  /\ calls = <<>>

\* the number of a month name in title case
MonthNumber(month) ==
  CHOOSE n \in DOMAIN MonthNames : Title(MonthNames[n]) = month

\* C9: a block whose texts hold no year gets the current year, and the next
\* year when the number of its month is less than the current month minus
\* one: in November a block of "Jan" gets the next year. Stated as the
\* specification states it; it does not hold: MONTHS.get(month.title(),
\* now.month) finds no key in title case and answers now.month, so the year
\* is never the next one.
YearRollsOver ==
  \A k \in DOMAIN outcomes :
    (/\ TruthyStr(outcomes[k].locals.month)
     /\ SearchYear(BigText(html.blocks[k])) = NoneInt) =>
      outcomes[k].locals.year =
        IF MonthNumber(outcomes[k].locals.month) < clock.month - 1
        THEN clock.year + 1 ELSE clock.year

\* in November the block of "JAN 15" got the current year
JanuaryInCurrentYear ==
  /\ entry = "main" /\ clock = ClockNov20
  /\ Len(outcomes) >= 1
  /\ html.blocks[1] = CardJan
  /\ outcomes[1].locals.month = MonthNames[1]
  /\ outcomes[1].locals.day = 15
  /\ outcomes[1].locals.year = ClockNov20.year

\* the event of C10: "Midnight Revue", 20:00 to 22:00 local time on the 6th
\* of December of the year of the clock
MidnightRevue(now) ==
  [title |-> TxtMidnightRevue,
   start |-> Localize(Naive(now.year, 12, 6, 20, 0, 0)),
   end |-> Localize(Naive(now.year, 12, 6, 22, 0, 0)),
   description |-> <<>>,
   ticket_url |-> NoneStr,
   private_id |-> [title |-> TxtMidnightRevue,
                   start |-> Naive(now.year, 12, 6, 20, 0, 0)]]

\* C10: for the document of one block with "Doors: 7:00 pm", "Show: 8:00
\* pm", the title "Midnight Revue" and "Dec 6", on the 20th of November of
\* year Y, parse_event_blocks returns one event: "Midnight Revue" from
\* Y-12-06 20:00 to Y-12-06 22:00 local time. Stated as the specification
\* states it; it does not hold: parse_event_blocks raises KeyError.
ExtractsMidnightRevue ==
  (/\ entry = "main" /\ clock = ClockNov20
   /\ html.fetched /\ html.blocks = <<CardRevue>>) =>
    /\ pc # "raised"
    /\ pc # "parse_event_blocks" => parsed_events = <<MidnightRevue(clock)>>

\* the document of C10 ended the run: its values were parsed, no event built
MidnightRevueRaised ==
  /\ entry = "main" /\ clock = ClockNov20
  /\ html.blocks = <<CardRevue>>
  /\ pc = "raised" /\ exc = "KeyError"
  /\ outcomes[1].locals =
       [title |-> TxtMidnightRevue, month |-> MonthNames[12], day |-> 6,
        year |-> ClockNov20.year, show_time_str |-> SubSeq(TxtShow8, 7, 13)]
  /\ parsed_events = <<>>

\* the record find_existing_event returned is the first item of the list, in
\* the order of the list, that agrees with the event in title and start
FoundIsFirstMatch ==
  (lookup.called /\ ~lookup.raised /\ lookup.found # NoItem) =>
    \E k \in DOMAIN lookup.items :
      /\ lookup.items[k] = lookup.found
      /\ TitleAndStartAgree(lookup.items[k], lookup.title, lookup.start)
      /\ \A n \in 1..(k - 1) :
           ~TitleAndStartAgree(lookup.items[n], lookup.title, lookup.start)

\* a call of upsert_event that found a record changes that record alone: no
\* record is added or removed, and every record of another id stays as it was
PatchChangesFoundOnly ==
  (Len(calls') = Len(calls) + 1 /\ calls'[Len(calls')].found # 0) =>
    /\ Len(store') = Len(store)
    /\ \A n \in DOMAIN store :
         /\ store'[n].id = store[n].id
         /\ store[n].id # calls'[Len(calls')].found => store'[n] = store[n]

\* C11: find_existing_event returns at most one record, the first of the
\* items of the list, in the order the calendar returned them, that satisfies
\* the match rule; upsert_event patches that record and leaves every other
\* record of the calendar as it was.
FirstMatchWins == []FoundIsFirstMatch /\ [][PatchChangesFoundOnly]_vars

\* two records of the list agree with the event; the one the list returned
\* first (the earlier start, the second of the store) was found and patched,
\* the other is as it was
FirstOfTwoMatchesPatched ==
  /\ entry = "upsert_loop" /\ run = "first"
  /\ to_upsert[1] = EventTestShow45
  /\ Len(calls) = 1 /\ ~calls[1].raised
  /\ lookup.items = <<StoreTwo[2], StoreTwo[1]>>
  /\ TitleAndStartAgree(StoreTwo[1], lookup.title, lookup.start)
  /\ TitleAndStartAgree(StoreTwo[2], lookup.title, lookup.start)
  /\ lookup.found = StoreTwo[2]
  /\ calls[1].requests = <<[kind |-> "patch", eventId |-> 2]>>
  /\ store[1] = StoreTwo[1]
  /\ store[2] = Stored(2, EventBody(EventTestShow45))

\* the store with the private id of every record replaced by tag
RetagAll(s, tag) == [n \in DOMAIN s |-> [s[n] EXCEPT !.private = tag]]

\* the store with the private id of the record at n replaced by tag
RetagOne(s, n, tag) == [s EXCEPT ![n].private = tag]

\* stores that differ from s in private ids only: every record without one,
\* every record with that of the event e or of another event, and each
\* record alone with that of e
Retagged(s, e) ==
  {RetagAll(s, tag) :
     tag \in {NoPrivateId, e.private_id, EventOtherAct.private_id}}
    \cup {RetagOne(s, n, e.private_id) : n \in DOMAIN s}

\* find_existing_event returns for the event e the record of the same id from
\* the store v as the record base it returns from the store s, the same but
\* for the private id, and upsert_event decides on the same request
SameDecision(s, v, e, base, other) ==
  /\ other.id = base.id
  /\ other # NoItem =>
       /\ \E n \in DOMAIN s : s[n] = base /\ v[n] = other
       /\ other = [base EXCEPT !.private = other.private]
  /\ UpsertRequest(other) = UpsertRequest(base)

\* the event the next call of find_existing_event is for
NextEvent == IF entry = "find_existing_event" THEN to_upsert[1] ELSE to_upsert[j]

\* before every call, the result of find_existing_event and the request of
\* upsert_event are the same for every store that differs from the calendar
\* in private ids only
PrivateIdDoesNotDecide ==
  (\/ pc = "find_existing_event"
   \/ pc = "upsert_loop" /\ j <= Len(to_upsert)) =>
    \A v \in Retagged(store, NextEvent) :
      SameDecision(store, v, NextEvent,
                   find_existing_event(store, NextEvent.title, NextEvent.start),
                   find_existing_event(v, NextEvent.title, NextEvent.start))

\* a call of upsert_event whose write succeeded has left the private id of
\* its event on the record it wrote: the found record when it patched, a new
\* last record when it inserted
PrivateIdIsWritten ==
  (Len(calls') = Len(calls) + 1 /\ ~calls'[Len(calls')].raised) =>
    \E n \in DOMAIN store' :
      /\ store'[n].private = to_upsert[j].private_id
      /\ store'[n].private = PrivateId(to_upsert[j].title, to_upsert[j].start)
      /\ IF calls'[Len(calls')].found # 0
         THEN store'[n].id = calls'[Len(calls')].found
         ELSE n = Len(store') /\ Len(store') = Len(store) + 1

\* C12: upsert_event writes the private id of the event on every record it
\* inserts or patches, and the private ids of the calendar take no part in the
\* matching: for stores that differ in private ids only, find_existing_event
\* returns the same record (or none) and upsert_event sends the same request,
\* insert or patch, to the same id.
PrivateIdWrittenNotMatched ==
  []PrivateIdDoesNotDecide /\ [][PrivateIdIsWritten]_vars

\* a record without the private id of the event was found by title and
\* start and patched, and holds the private id of the event now
FoundWithoutPrivateId ==
  /\ entry = "upsert_loop" /\ run = "first"
  /\ Len(store) = 1 /\ store[1].id = 1
  /\ to_upsert[1] = EventTestShow45
  /\ Len(calls) = 1 /\ ~calls[1].raised
  /\ lookup.found = StoreOne[1]
  /\ lookup.found.private = NoPrivateId
  /\ NoPrivateId # EventTestShow45.private_id
  /\ calls[1].requests = <<[kind |-> "patch", eventId |-> 1]>>
  /\ store[1].private = EventTestShow45.private_id

====
